---------------------------- MODULE Spec2Model ----------------------------
(***************************************************************************)
(* Iterative learning control driver (ilc.py): argument preconditions,     *)
(* set-up of the lifted vectors, the trial loop (Controller construction,  *)
(* reset, simulate with the Controller.get callback, error measurement,    *)
(* linearization points, error lifting, least-squares update).             *)
(*                                                                         *)
(* Numbers are integers.  Python index i of a list or array is index i+1   *)
(* of the sequence that models it.  Accelerations of the thrust-direction  *)
(* computation are in units of 5e-4 m/s^2.  Accelerations obtained by      *)
(* np.diff(...)/dt are kept in units of 1/dt.                              *)
(***************************************************************************)
EXTENDS Integers, Sequences, FiniteSets, TLC

VARIABLES
  args,            \* argparse namespace (line 67)
  pc,              \* position of the script
  iter_no,         \* loop variable of the trial loop (line 374)
  lifted_control,  \* flat lifted control, N * n_control entries
  lifted_state,    \* flat lifted state, N * n_state entries
  initial_lifted,  \* initial_lifted_state / initial_lifted_control (158-159)
  cum_updates,     \* line 137 / 496
  controller,      \* the Controller instance of the current trial
  ilc,             \* mutable attributes of the model instance
  data,            \* rows returned by ilc.simulate, grown step by step
  errs,            \* pos_errors / accel_errors of the current trial
  noise_draw,      \* values np.random.normal returned at line 468
  lin_points,      \* (source, ind) of the states/controls lists (446-462)
  lifted_output_error,
  update,          \* result of lstsq (488), scaled in place (493)
  trial_control_corrections, \* line 441
  calls,           \* ilc.feedback calls made by the last Controller.get
  last_get,        \* argument and result of the last Controller.get
  trace,           \* model operations invoked so far, in order
  zb               \* thrust-direction computation of Controller.__init__

vars == <<args, pc, iter_no, lifted_control, lifted_state, initial_lifted,
          cum_updates, controller, ilc, data, errs, noise_draw, lin_points,
          lifted_output_error, update, trial_control_corrections, calls,
          last_get, trace, zb>>

-----------------------------------------------------------------------------
(* Bounds of the model *)

\* N = int(round(t_end / dt)), the number of steps of a trial (line 110)
N == 3

\* largest --trials value explored
MaxTrials == 3

-----------------------------------------------------------------------------
(* Vectors *)

Zeros(n) == [k \in 1..n |-> 0]

VecAdd(a, b) == [k \in 1..Len(a) |-> a[k] + b[k]]

VecSub(a, b) == [k \in 1..Len(a) |-> a[k] - b[k]]

VecScale(c, a) == [k \in 1..Len(a) |-> c * a[k]]

Dot(a, b) == LET RECURSIVE S(_)
                 S(k) == IF k = 0 THEN 0 ELSE a[k] * b[k] + S(k - 1)
             IN S(Len(a))

\* v[bs * i : bs * (i + 1)] for Python index i
Block(v, bs, i) == SubSeq(v, bs * i + 1, bs * (i + 1))

\* vec = np.zeros(DIMS); vec[AXIS] = s   (AXIS is a Python index)
OnAxis(dims, axis, s) == [j \in 1..dims |-> IF j = axis + 1 THEN s ELSE 0]

-----------------------------------------------------------------------------
(* system_map and the string tests made on args.system *)

Systems == {"trivial", "simple", "linear", "linearpos", "nl1d", "2dposlin",
            "2dpos", "3d", "2ddedi", "3ddedi", "3ddediv"}

DIMS(system) ==
  CASE system \in {"trivial", "simple", "linear", "linearpos", "nl1d"} -> 1
    [] system \in {"2dposlin", "2dpos", "2ddedi"} -> 2
    [] OTHER -> 3

AXIS(system) == IF DIMS(system) = 3 THEN 1 ELSE 0

\* 'pos' in args.system
HasPos(system) == system \in {"linearpos", "2dposlin", "2dpos"}

\* '3d' in args.system
Has3d(system) == system \in {"3d", "3ddedi", "3ddediv"}

\* '2d' in args.system
Has2d(system) == system \in {"2dposlin", "2dpos", "2ddedi"}

\* ilc.n_control of the model classes
n_control(system) ==
  CASE DIMS(system) = 1 -> 1
    [] DIMS(system) = 2 -> 2
    [] OTHER -> 4

\* length of a row of the array ilc.simulate returns (the columns the script
\* reads: 0:1 | 0:2 | 0..3 | 0..5 | 0..11)
RowLen(system) ==
  CASE system = "trivial" -> 1
    [] system = "simple" -> 2
    [] system \in {"linear", "linearpos", "nl1d"} -> 4
    [] Has2d(system) -> 6
    [] OTHER -> 12

\* ilc.n_state of the model classes: the row length, plus the two integrator
\* columns 12 and 13 of the 3ddediv feedback response (lines 320, 329)
n_state(system) == IF system = "3ddediv" THEN 14 ELSE RowLen(system)

\* ilc.n_out of the model classes
n_out(system) == DIMS(system)

\* hasattr(ilc, 'feedforward')
HasFeedforward(system) == system \notin {"trivial", "simple", "nl1d"}

\* base.g, in units of 5e-4 m/s^2
G == 19620

\* base.g3
g3 == <<0, 0, G>>

\* the bound 1e-3 of line 226, in units of 5e-4 m/s^2
AccNormMin == 2

\* dt = args.dt, in ticks of the model's clock (t_end = N * dt)
dt == 2

-----------------------------------------------------------------------------
(* Reference trajectory (lines 118-131, 161-178) *)

\* np.polyval of the position polynomial and of its derivatives at ts[i]
PosPoly(i) == i * i

VelPoly(i) == 2 * i

AccPoly(i) == N - 2 * i

JerkPoly(i) == 0 - 2

SnapPoly(i) == 1

\* poss_des after lines 161-163
poss_des(system) ==
  [k \in 1..(N + 1) |->
     IF (system \in {"2dpos", "linearpos", "2dposlin", "nl1d"} \/ Has3d(system))
        /\ k - 1 < (IF 4 < N THEN 4 ELSE N)
     THEN 0 ELSE PosPoly(k - 1)]

\* accels_des after lines 165-166
accels_des(system) ==
  [k \in 1..(N + 1) |->
     IF system \in {"linear", "2d", "linearpos"} /\ k - 1 = 1
     THEN 0 ELSE AccPoly(k - 1)]

\* the (N + 1, DIMS) arrays of lines 122-123 and 168-178
poss_des_vec(system) ==
  [k \in 1..(N + 1) |-> OnAxis(DIMS(system), AXIS(system), poss_des(system)[k])]

vels_des_vec(system) ==
  [k \in 1..(N + 1) |-> OnAxis(DIMS(system), AXIS(system), VelPoly(k - 1))]

accels_des_vec(system) ==
  [k \in 1..(N + 1) |-> OnAxis(DIMS(system), AXIS(system), accels_des(system)[k])]

jerks_des_vec(system) ==
  [k \in 1..(N + 1) |-> OnAxis(DIMS(system), AXIS(system), JerkPoly(k - 1))]

snaps_des_vec(system) ==
  [k \in 1..(N + 1) |-> OnAxis(DIMS(system), AXIS(system), SnapPoly(k - 1))]

-----------------------------------------------------------------------------
(* Argument preconditions (lines 95-98, 144) *)

\* Mutation of RelinAsserts: the assert of line 96 left out
RelinAssertFirstOnly(a) == a.relin_time \/ ~a.relin_iter

\* lines 95-96
RelinAsserts(a) ==
  /\ a.relin_time \/ ~a.relin_iter
  /\ ~(a.relin_time /\ ~a.relin_iter /\ ~a.feedforward)

\* Mutation of FeedbackAssert: the assert of line 98 left out
FeedbackAssertSkipped(a) == a.feedback \/ ~a.feedback

\* line 98
FeedbackAssert(a) == a.feedback \/ ~a.plot_fb_resp

\* line 144, reached only if args.feedforward
FeedforwardAssert(a) == a.feedforward => HasFeedforward(a.system)

-----------------------------------------------------------------------------
(* Set-up of the lifted vectors (lines 133-159) *)

\* lines 133-135
ZeroControl(system) ==
  [k \in 1..(N * n_control(system)) |->
     IF DIMS(system) \in {2, 3} /\ (k - 1) % n_control(system) = 0
     THEN G ELSE 0]

\* lines 139-141
ZeroState(system) ==
  [k \in 1..(N * n_state(system)) |->
     IF DIMS(system) = 3 /\ k - 1 >= 8 /\ (k - 1 - 8) % n_state(system) = 0
     THEN 1 ELSE 0]

\* ilc.feedforward(pos, vel, acc, jerk, snap) of step i: the nominal state
\* and control that track the reference sample
feedforward(system, i) ==
  [state   |-> [k \in 1..n_state(system) |->
                  CASE k = AXIS(system) + 1 -> PosPoly(i)
                    [] k = DIMS(system) + AXIS(system) + 1
                         /\ k <= n_state(system) -> VelPoly(i)
                    [] OTHER -> 0],
   control |-> [k \in 1..n_control(system) |->
                  IF k = 1
                  THEN AccPoly(i) + (IF DIMS(system) = 1 THEN 0 ELSE G)
                  ELSE JerkPoly(i)]]

\* lines 146-156: every block replaced by the feed-forward pair
FeedforwardState(system) ==
  [k \in 1..(N * n_state(system)) |->
     feedforward(system, (k - 1) \div n_state(system)).state[
       ((k - 1) % n_state(system)) + 1]]

FeedforwardControl(system) ==
  [k \in 1..(N * n_control(system)) |->
     feedforward(system, (k - 1) \div n_control(system)).control[
       ((k - 1) % n_control(system)) + 1]]

-----------------------------------------------------------------------------
(* Controller.__init__ (lines 181-242) *)

Cross(a, b) == <<a[2] * b[3] - a[3] * b[2],
                 a[3] * b[1] - a[1] * b[3],
                 a[1] * b[2] - a[2] * b[1]>>

\* lines 220-232.  u is kept by its square u2; a quotient by a power of u is
\* kept as its numerator, u2 and the power (num / u^pow).
\*   z_b     = acc_vec / u
\*   z_b_dot = (jerk - (z_b . jerk) z_b) / u = (u^2 jerk - (acc_vec . jerk) acc_vec) / u^3
\*   angvel  = z_b x z_b_dot = (acc_vec x jerk) / u^2
ThrustDirection(accel, jerk) ==
  LET acc_vec == VecAdd(accel, g3)
      u2      == Dot(acc_vec, acc_vec)
  IN [u2      |-> u2,
      warned  |-> u2 < AccNormMin * AccNormMin,
      z_b     |-> [num |-> acc_vec, u2 |-> u2, pow |-> 1],
      z_b_dot |-> [num |-> VecSub(VecScale(u2, jerk),
                                  VecScale(Dot(acc_vec, jerk), acc_vec)),
                   u2 |-> u2, pow |-> 3],
      angvel  |-> [num |-> Cross(acc_vec, jerk), u2 |-> u2, pow |-> 2]]

\* lines 203-235: what step i appends to accs_des and angvels_des
\* (<<>> when the branch appends nothing)
DesiredAt(system, l_state, i) ==
  LET state_now == Block(l_state, n_state(system), i)
  IN CASE system \in {"simple", "trivial"} ->
            [accs |-> <<>>, angvels |-> <<>>]
       [] system \in {"linear", "linearpos"} ->
            [accs |-> <<state_now[3]>>, angvels |-> <<state_now[4]>>]
       [] Has2d(system) ->
            [accs |-> <<accels_des_vec(system)[i + 1]>>,
             angvels |-> <<state_now[6]>>]
       [] Has3d(system) ->
            [accs |-> <<accels_des_vec(system)[i + 1]>>,
             angvels |-> <<ThrustDirection(accels_des_vec(system)[i + 1],
                                          jerks_des_vec(system)[i + 1]).angvel>>]
       [] OTHER -> [accs |-> <<>>, angvels |-> <<>>]

RECURSIVE Collect(_, _, _, _)
Collect(system, l_state, field, n) ==
  IF n = 0 THEN <<>>
  ELSE Collect(system, l_state, field, n - 1)
         \o DesiredAt(system, l_state, n - 1)[field]

\* line 196: the N blocks of the lifted control
ControlBlocks(system, l_control) ==
  [k \in 1..N |-> Block(l_control, n_control(system), k - 1)]

ControllerInit(system, l_control, l_state) ==
  [poss_des    |-> poss_des_vec(system),
   vels_des    |-> vels_des_vec(system),
   controls    |-> ControlBlocks(system, l_control),
   accs_des    |-> Collect(system, l_state, "accs", N),
   jerks_des   |-> [k \in 1..N |-> jerks_des_vec(system)[k]],
   snaps_des   |-> [k \in 1..N |-> snaps_des_vec(system)[k]],
   angvels_des |-> Collect(system, l_state, "angvels", N),
   index       |-> 0,
   compute_feedback_response |-> FALSE,
   poke        |-> FALSE,
   feedback_responses     |-> <<>>,
   feedback_responses_ana |-> <<>>,
   final_controls         |-> <<>>]

-----------------------------------------------------------------------------
(* The model instance: reset, feedback, simulate *)

\* ilc.reset(): the integral-action accumulators back to their initial values
ResetModel == [int_u |-> 0, int_udot |-> 0]

\* the finite-difference step try_eps = 1e-6 of line 290, the unit of the
\* states and of the integrators
try_eps == 1

\* position error along the travelled axis at step index
TrackingError(system, x, index) ==
  poss_des_vec(system)[index + 1][AXIS(system) + 1] - x[AXIS(system) + 1]

\* ilc.feedback(x, <desired values>, <nominal control>, integrate): the
\* command, and the integrators after the call (advanced only if integrate)
feedback(system, m, x, index, ilc_controls, integrate) ==
  LET e == TrackingError(system, x, index)
  IN [out |-> [k \in 1..Len(ilc_controls) |->
                 ilc_controls[k] + e + (IF k = 1 THEN m.int_u ELSE 0)],
      ilc |-> IF integrate
              THEN [int_u    |-> m.int_u + m.int_udot + e,
                    int_udot |-> m.int_udot + e]
              ELSE m]

\* rows ilc.simulate can produce after the fixed initial row: the plant is
\* one of two representative states at every step
PlantVals == {0, 1}

PlantRow(system, s) == [k \in 1..RowLen(system) |-> s * k]

-----------------------------------------------------------------------------
(* Controller.get (lines 244-363) *)

\* lines 247-277: the per-step lists the dispatch branch indexes
ArgLists(system) ==
  CASE system = "trivial" -> {"vels_des"}
    [] system = "simple" -> {"poss_des", "vels_des"}
    [] system \in {"linear", "linearpos"} ->
         {"poss_des", "vels_des", "accs_des", "angvels_des"}
    [] system \in {"3ddedi", "3ddediv"} ->
         {"poss_des", "vels_des", "accs_des", "jerks_des", "snaps_des"}
    [] OTHER -> {"poss_des", "vels_des", "accs_des", "angvels_des"}

\* a list indexed past its end raises IndexError
ReadsInRange(c, lists, index) == \A l \in lists : index < Len(c[l])

\* Mutation of InPokeWindow: the window taken with its end points
PokeWindowLoose(a, index) ==
  /\ 2 * a.poke_time - a.poke_duration <= 2 * dt * index
  /\ 2 * dt * index <= 2 * a.poke_time + a.poke_duration

\* line 354: poke_center - poke_steps / 2 < index < poke_center + poke_steps / 2
\* with poke_center = poke_time / dt and poke_steps = poke_duration / dt,
\* both sides multiplied by 2 * dt
InPokeWindow(a, index) ==
  /\ 2 * a.poke_time - a.poke_duration < 2 * dt * index
  /\ 2 * dt * index < 2 * a.poke_time + a.poke_duration

\* lines 292-293
Perturb(x, i) == [x EXCEPT ![i + 1] = x[i + 1] + try_eps]

CallRec(m, x, integrate) ==
  [x |-> x, integrate |-> integrate, int_u |-> m.int_u, int_udot |-> m.int_udot]

\* Mutation of RestoreIntegrators: line 332 left out
RestoreOnlyU(m, orig_u, orig_udot) == [m EXCEPT !.int_u = orig_u]

\* lines 331-332
RestoreIntegrators(m, orig_u, orig_udot) ==
  [m EXCEPT !.int_u = orig_u, !.int_udot = orig_udot]

\* lines 281-332: the feedback calls of the Jacobian probe, in order, and the
\* model attributes after it
Probe(system, m, x, index, ilc_controls) ==
  LET first == <<CallRec(m, x, FALSE)>>
      m0    == feedback(system, m, x, index, ilc_controls, FALSE).ilc
      perState == [i \in 1..Len(x) |-> CallRec(m0, Perturb(x, i - 1), FALSE)]
  IN IF system = "3ddediv"
     THEN LET orig_u    == m0.int_u
              orig_udot == m0.int_udot
              m1 == [m0 EXCEPT !.int_u = orig_u + try_eps]
              m1r == feedback(system, m1, x, index, ilc_controls, FALSE).ilc
              m2 == [m1r EXCEPT !.int_u = orig_u,
                                !.int_udot = orig_udot + try_eps]
              m2r == feedback(system, m2, x, index, ilc_controls, FALSE).ilc
          IN [calls |-> first \o perState
                          \o <<CallRec(m1, x, FALSE), CallRec(m2, x, FALSE)>>,
              ilc   |-> RestoreIntegrators(m2r, orig_u, orig_udot)]
     ELSE [calls |-> first \o perState, ilc |-> m0]

\* Mutation of OpenLoopCommand: the step index ignored
OpenLoopFirst(c) == c.controls[1]

\* lines 245, 363: ilc_controls = self.controls[self.index]
OpenLoopCommand(c) == c.controls[c.index + 1]

\* the whole of Controller.get(x)
Get(a, c, m, x) ==
  LET system == a.system
      ilc_controls == OpenLoopCommand(c)
  IN IF ~a.feedback
     THEN \* lines 361-363
          [outcome |-> "return", ret |-> ilc_controls, fb |-> <<>>,
           poked |-> FALSE, calls |-> <<>>, ilc |-> m,
           controller |-> [c EXCEPT !.index = c.index + 1,
                             !.final_controls = Append(@, ilc_controls)]]
     ELSE IF ~ReadsInRange(c, ArgLists(system), c.index)
     THEN \* lines 247-277
          [outcome |-> "IndexError", ret |-> <<>>, fb |-> <<>>,
           poked |-> FALSE, calls |-> <<>>, ilc |-> m, controller |-> c]
     ELSE
       LET pr == IF c.compute_feedback_response
                 THEN Probe(system, m, x, c.index, ilc_controls)
                 ELSE [calls |-> <<>>, ilc |-> m]
           c1 == IF c.compute_feedback_response
                 THEN [c EXCEPT !.feedback_responses = Append(@, c.index)]
                 ELSE c
       IN IF c.compute_feedback_response
             /\ ~ReadsInRange(c, {"accs_des", "jerks_des", "snaps_des"}, c.index)
          THEN \* lines 335-339
               [outcome |-> "IndexError", ret |-> <<>>, fb |-> <<>>,
                poked |-> FALSE, calls |-> pr.calls, ilc |-> pr.ilc,
                controller |-> c1]
          ELSE
            LET fbk   == feedback(system, pr.ilc, x, c.index, ilc_controls, TRUE)
                calls1 == Append(pr.calls, CallRec(pr.ilc, x, TRUE))
                poking == c.poke /\ InPokeWindow(a, c.index)
            IN IF poking /\ Len(fbk.out) < 2
               THEN \* line 355 on a one-entry command
                    [outcome |-> "IndexError", ret |-> <<>>, fb |-> fbk.out,
                     poked |-> FALSE, calls |-> calls1, ilc |-> fbk.ilc,
                     controller |-> c1]
               ELSE
                 LET cmd == IF poking
                            THEN [fbk.out EXCEPT ![2] = @ + a.poke_strength]
                            ELSE fbk.out
                 IN [outcome |-> "return", ret |-> cmd, fb |-> fbk.out,
                     poked |-> poking, calls |-> calls1, ilc |-> fbk.ilc,
                     controller |-> [c1 EXCEPT !.index = c.index + 1,
                                       !.final_controls = Append(@, cmd)]]

-----------------------------------------------------------------------------
(* Error measurement (lines 381-420) *)

\* python column ranges of data read as poss_vec and as the velocity that
\* np.diff turns into accels_vec
PosCols(system) ==
  CASE Has3d(system) -> <<1, 2, 3>>
    [] Has2d(system) -> <<1, 2>>
    [] OTHER -> <<1>>

VelCols(system) ==
  CASE Has3d(system) -> <<4, 5, 6>>
    [] Has2d(system) -> <<3, 4>>
    [] system \in {"linear", "linearpos", "nl1d"} -> <<2>>
    [] system = "simple" -> <<2>>
    [] OTHER -> <<1>>

Cols(rows, cols) == [k \in 1..Len(rows) |-> [j \in 1..Len(cols) |-> rows[k][cols[j]]]]

\* np.diff(v, axis=0) / dt followed by a row of zeros
DiffRows(v) ==
  [k \in 1..Len(v) |->
     IF k < Len(v) THEN VecSub(v[k + 1], v[k]) ELSE Zeros(Len(v[k]))]

RowsSub(a, b) == [k \in 1..Len(a) |-> VecSub(a[k], b[k])]

\* line 418
PosErrors(system, d) == RowsSub(Cols(d, PosCols(system)), poss_des_vec(system))

\* line 420
AccelErrors(system, d) ==
  RowsSub(DiffRows(Cols(d, VelCols(system))), accels_des_vec(system))

-----------------------------------------------------------------------------
(* Noise, filter and lifting of the error (lines 466-479) *)

\* values np.random.normal(0, 0.001) can take, in the unit of the errors
NoiseVals == {0 - 1, 1}

NoiseSeqs == [1..(N + 1) -> NoiseVals]

\* lines 467-468: one draw per row, added to every entry of the row
AddNoise(dims, pos, nz) ==
  [k \in 1..(N + 1) |-> [j \in 1..dims |-> pos[k][j] + nz[k]]]

\* savgol_filter of one column of N + 1 samples: a fixed-window smoothing,
\* here the window (1, 2, 1) with the end samples repeated, unnormalised
Smooth(col) ==
  [k \in 1..(N + 1) |->
     col[IF k = 1 THEN 1 ELSE k - 1] + 2 * col[k]
       + col[IF k = N + 1 THEN k ELSE k + 1]]

\* lines 474-475: every column replaced by its filtered values
FilterColumns(dims, pos) ==
  [k \in 1..(N + 1) |->
     [j \in 1..dims |-> Smooth([r \in 1..(N + 1) |-> pos[r][j]])[k]]]

\* Mutation of UsesPosErrors: the '3d' test left out
UsesPosOnly(system) == HasPos(system)

\* line 472
UsesPosErrors(system) == HasPos(system) \/ Has3d(system)

\* lines 470-479: the loop from step i on; pos is modified in place
RECURSIVE LiftLoop(_, _, _, _, _)
LiftLoop(a, i, pos, acc, out) ==
  IF i = N THEN [lifted |-> out, pos |-> pos]
  ELSE IF UsesPosErrors(a.system)
       THEN LET p1 == IF a.filter THEN FilterColumns(DIMS(a.system), pos) ELSE pos
            IN LiftLoop(a, i + 1, p1, acc, out \o p1[i + 2])
       ELSE LiftLoop(a, i + 1, pos, acc, out \o acc[i + 2])

-----------------------------------------------------------------------------
(* Least squares and update (lines 484-494) *)

\* np.linalg.lstsq(F, -y): the minimum-norm solution, one of these vectors
Corrections == {0 - 1, 1}

SolveResults(n) == {[k \in 1..n |-> c * k] : c \in Corrections}

\* Mutation of ScaledUpdate: the step size applied twice
ScaledTwice(alpha, u) == VecScale(alpha * alpha, u)

\* line 493: update *= args.alpha
ScaledUpdate(alpha, u) == VecScale(alpha, u)

\* Mutation of LastTrial: the comparison off by one
LastTrialLate(a, i) == i >= a.trials

\* line 443
LastTrial(a, i) == i >= a.trials - 1

-----------------------------------------------------------------------------
(* Initial states *)

NoController ==
  [poss_des |-> <<>>, vels_des |-> <<>>, controls |-> <<>>, accs_des |-> <<>>,
   jerks_des |-> <<>>, snaps_des |-> <<>>, angvels_des |-> <<>>, index |-> 0,
   compute_feedback_response |-> FALSE, poke |-> FALSE,
   feedback_responses |-> <<>>, feedback_responses_ana |-> <<>>,
   final_controls |-> <<>>]

NoGet ==
  [iter_no |-> 0 - 1, index |-> 0, x |-> <<>>, outcome |-> "none",
   ret |-> <<>>, fb |-> <<>>, poked |-> FALSE, recording |-> FALSE,
   block |-> <<>>, pre |-> ResetModel]

\* the namespaces parse_args can return, for the given choices of each option
ArgSpace(systems, trials, alphas, flags, relins, pokes) ==
  {[system |-> s, trials |-> t, alpha |-> al,
    feedback |-> f.feedback, noise |-> f.noise, filter |-> f.filter,
    plot_fb_resp |-> f.plot_fb_resp, save |-> f.save,
    relin_time |-> r.relin_time, relin_iter |-> r.relin_iter,
    feedforward |-> r.feedforward,
    poke |-> p.poke, poke_strength |-> p.poke_strength,
    poke_time |-> p.poke_time, poke_duration |-> p.poke_duration] :
     s \in systems, t \in trials, al \in alphas, f \in flags, r \in relins,
     p \in pokes}

NoThrust == [accels |-> <<>>, jerks |-> <<>>, out |-> <<>>]

\* nothing assigned yet
Blank ==
  /\ iter_no = 0
  /\ lifted_control = <<>>
  /\ lifted_state = <<>>
  /\ initial_lifted = [state |-> <<>>, control |-> <<>>]
  /\ cum_updates = <<>>
  /\ controller = NoController
  /\ ilc = ResetModel
  /\ data = <<>>
  /\ errs = [pos |-> <<>>, accel |-> <<>>]
  /\ noise_draw = <<>>
  /\ lin_points = <<>>
  /\ lifted_output_error = <<>>
  /\ update = <<>>
  /\ trial_control_corrections = <<>>
  /\ calls = <<>>
  /\ last_get = NoGet
  /\ trace = <<>>

InitWith(space) ==
  /\ args \in space
  /\ pc = "start"
  /\ zb = NoThrust
  /\ Blank

-----------------------------------------------------------------------------
(* Steps of the script *)

\* lines 95-98
Preconditions ==
  /\ pc = "start"
  /\ pc' = IF RelinAsserts(args) /\ FeedbackAssert(args)
           THEN "setup" ELSE "aborted"
  /\ UNCHANGED <<args, iter_no, lifted_control, lifted_state, initial_lifted,
                 cum_updates, controller, ilc, data, errs, noise_draw,
                 lin_points, lifted_output_error, update,
                 trial_control_corrections, calls, last_get, trace, zb>>

\* lines 100-178: the model instance, the lifted vectors, the feed-forward seed
Setup ==
  /\ pc = "setup"
  /\ IF ~FeedforwardAssert(args)
     THEN /\ pc' = "aborted"
          /\ lifted_control' = ZeroControl(args.system)
          /\ lifted_state' = ZeroState(args.system)
          /\ cum_updates' = Zeros(N * n_control(args.system))
          /\ UNCHANGED initial_lifted
     ELSE /\ pc' = IF 0 < args.trials THEN "trial" ELSE "done"
          /\ lifted_control' = IF args.feedforward
                               THEN FeedforwardControl(args.system)
                               ELSE ZeroControl(args.system)
          /\ lifted_state' = IF args.feedforward
                             THEN FeedforwardState(args.system)
                             ELSE ZeroState(args.system)
          /\ cum_updates' = Zeros(N * n_control(args.system))
          /\ initial_lifted' = [state |-> lifted_state', control |-> lifted_control']
  /\ iter_no' = 0
  /\ UNCHANGED <<args, controller, ilc, data, errs, noise_draw, lin_points,
                 lifted_output_error, update, trial_control_corrections,
                 calls, last_get, trace, zb>>

\* lines 375-377
NewController ==
  [ControllerInit(args.system, lifted_control, lifted_state) EXCEPT
     !.compute_feedback_response =
        (iter_no = args.trials - 1) /\ (args.plot_fb_resp \/ args.save),
     !.poke = (iter_no = args.trials - 1) /\ args.poke]

\* the values of one iteration of the loop body (data, the errors, the
\* linearization points, the lifted error, update) are assigned before they
\* are read in every iteration: they are cleared at the loop head
ClearIteration ==
  /\ data' = <<PlantRow(args.system, 0)>>
  /\ errs' = [pos |-> <<>>, accel |-> <<>>]
  /\ noise_draw' = <<>>
  /\ lin_points' = <<>>
  /\ lifted_output_error' = <<>>
  /\ update' = <<>>
  /\ calls' = <<>>
  /\ last_get' = NoGet

\* Mutation of StartTrial: ilc.reset() left out of the loop body
StartTrialNoReset ==
  /\ pc = "trial"
  /\ controller' = NewController
  /\ trace' = trace \o <<"simulate">>
  /\ ClearIteration
  /\ pc' = "get"
  /\ UNCHANGED <<args, iter_no, lifted_control, lifted_state, initial_lifted,
                 cum_updates, ilc, trial_control_corrections, zb>>

\* lines 374-379: a new Controller, ilc.reset(), entry of ilc.simulate with
\* the plant in its initial state
StartTrial ==
  /\ pc = "trial"
  /\ controller' = NewController
  /\ ilc' = ResetModel
  /\ trace' = trace \o <<"reset", "simulate">>
  /\ ClearIteration
  /\ pc' = "get"
  /\ UNCHANGED <<args, iter_no, lifted_control, lifted_state, initial_lifted,
                 cum_updates, trial_control_corrections, zb>>

\* one step of ilc.simulate: controller.get(x) with the current state, then
\* the plant moves to its next state
SimulateStep ==
  /\ pc = "get"
  /\ LET x == data[Len(data)]
         r == Get(args, controller, ilc, x)
     IN /\ controller' = r.controller
        /\ ilc' = r.ilc
        /\ calls' = r.calls
        /\ last_get' = [iter_no |-> iter_no, index |-> controller.index,
                        x |-> x, outcome |-> r.outcome, ret |-> r.ret,
                        fb |-> r.fb, poked |-> r.poked,
                        recording |-> args.feedback
                                        /\ controller.compute_feedback_response,
                        block |-> Block(lifted_control, n_control(args.system),
                                        controller.index),
                        pre |-> ilc]
        /\ IF r.outcome = "return"
           THEN /\ \E s \in PlantVals : data' = Append(data, PlantRow(args.system, s))
                /\ pc' = IF controller.index + 1 = N THEN "measure" ELSE "get"
           ELSE /\ data' = data
                /\ pc' = "crashed"
  /\ UNCHANGED <<args, iter_no, lifted_control, lifted_state, initial_lifted,
                 cum_updates, errs, noise_draw, lin_points,
                 lifted_output_error, update, trial_control_corrections,
                 trace, zb>>

\* lines 381-444: the errors of the trial, the trial records, the break
Measure ==
  /\ pc = "measure"
  /\ errs' = [pos |-> PosErrors(args.system, data),
              accel |-> AccelErrors(args.system, data)]
  /\ trial_control_corrections' = Append(trial_control_corrections, lifted_control)
  /\ pc' = IF LastTrial(args, iter_no) THEN "done" ELSE "linearize"
  /\ UNCHANGED <<args, iter_no, lifted_control, lifted_state, initial_lifted,
                 cum_updates, controller, ilc, data, noise_draw, lin_points,
                 lifted_output_error, update, calls, last_get, trace, zb>>

\* Mutation of LinPoint: without relin-iter the point is taken from the
\* lifted state and lifted control of the trial, not from the saved copies
LinPointCurrent(k) ==
  LET i   == IF k <= N THEN k - 1 ELSE N - 1
      ind == IF args.relin_time THEN i ELSE 0
  IN IF args.relin_iter
     THEN [source |-> "trial", ind |-> ind, state |-> data[ind + 1],
           control |-> Block(lifted_control, n_control(args.system), ind)]
     ELSE [source |-> "initial", ind |-> ind,
           state |-> Block(lifted_state, n_state(args.system), ind),
           control |-> Block(lifted_control, n_control(args.system), ind)]

\* lines 446-462: the point of entry k of the states / controls lists
LinPoint(k) ==
  LET i   == IF k <= N THEN k - 1 ELSE N - 1
      ind == IF args.relin_time THEN i ELSE 0
  IN IF args.relin_iter
     THEN [source |-> "trial", ind |-> ind, state |-> data[ind + 1],
           control |-> Block(lifted_control, n_control(args.system), ind)]
     ELSE [source |-> "initial", ind |-> ind,
           state |-> Block(initial_lifted.state, n_state(args.system), ind),
           control |-> Block(initial_lifted.control, n_control(args.system), ind)]

\* lines 446-464: linearization points and ilc.get_learning_operator
BuildOperator ==
  /\ pc = "linearize"
  /\ lin_points' = [k \in 1..(N + 1) |-> LinPoint(k)]
  /\ trace' = Append(trace, "build")
  /\ pc' = "lift"
  /\ UNCHANGED <<args, iter_no, lifted_control, lifted_state, initial_lifted,
                 cum_updates, controller, ilc, data, errs, noise_draw,
                 lifted_output_error, update, trial_control_corrections,
                 calls, last_get, zb>>

\* lines 466-479
LiftError ==
  /\ pc = "lift"
  /\ \E nz \in NoiseSeqs :
       /\ noise_draw' = IF args.noise THEN nz ELSE <<>>
       /\ LET noisy == IF args.noise
                       THEN AddNoise(DIMS(args.system), errs.pos, nz)
                       ELSE errs.pos
              r == LiftLoop(args, 0, noisy, errs.accel, <<>>)
          IN /\ lifted_output_error' = r.lifted
             /\ errs' = [errs EXCEPT !.pos = r.pos]
  /\ pc' = "solve"
  /\ UNCHANGED <<args, iter_no, lifted_control, lifted_state, initial_lifted,
                 cum_updates, controller, ilc, data, lin_points, update,
                 trial_control_corrections, calls, last_get,
                 trace, zb>>

\* lines 484-488
Solve ==
  /\ pc = "solve"
  /\ update' \in SolveResults(N * n_control(args.system))
  /\ trace' = Append(trace, "solve")
  /\ pc' = "update"
  /\ UNCHANGED <<args, iter_no, lifted_control, lifted_state, initial_lifted,
                 cum_updates, controller, ilc, data, errs, noise_draw,
                 lin_points, lifted_output_error, trial_control_corrections,
                 calls, last_get, zb>>

\* lines 493-524, and the loop header for the next iteration
ApplyUpdate ==
  /\ pc = "update"
  /\ update' = ScaledUpdate(args.alpha, update)
  /\ lifted_control' = VecAdd(lifted_control, update')
  /\ cum_updates' = VecAdd(cum_updates, update')
  /\ trace' = Append(trace, "update")
  /\ iter_no' = iter_no + 1
  /\ pc' = IF iter_no + 1 < args.trials THEN "trial" ELSE "done"
  /\ UNCHANGED <<args, lifted_state, initial_lifted, controller, ilc, data,
                 errs, noise_draw, lin_points, lifted_output_error,
                 trial_control_corrections, calls, last_get, zb>>

Next ==
  \/ Preconditions
  \/ Setup
  \/ StartTrial
  \/ SimulateStep
  \/ Measure
  \/ BuildOperator
  \/ LiftError
  \/ Solve
  \/ ApplyUpdate

-----------------------------------------------------------------------------
(* Specifications *)

Bools == {TRUE, FALSE}

Off == {FALSE}

NoPoke == [poke : Off, poke_strength : {5}, poke_time : {dt}, poke_duration : {dt}]

RelinDefault == [relin_time : {TRUE}, relin_iter : {TRUE}, feedforward : Off]

\* the trial loop: every system, open and closed loop, 1..MaxTrials trials,
\* two step sizes
Init ==
  InitWith(ArgSpace(Systems, 1..MaxTrials, {1, 2},
                    [feedback : Bools, noise : Off, filter : Off,
                     plot_fb_resp : Off, save : Off],
                    RelinDefault, NoPoke))

Spec == Init /\ [][Next]_vars

\* the precondition flags: every system, every combination of feedback,
\* plot-fb-resp, relin-time, relin-iter and feedforward
InitArgs ==
  InitWith(ArgSpace(Systems, {1, 2}, {1},
                    [feedback : Bools, noise : Off, filter : Off,
                     plot_fb_resp : Bools, save : Off],
                    [relin_time : Bools, relin_iter : Bools, feedforward : Bools],
                    NoPoke))

SpecArgs == InitArgs /\ [][Next]_vars

\* the Controller: feedback, the recording of the feedback response (asked
\* for by plot-fb-resp or by save) and the poke, with windows around step 1
\* and between steps 1 and 2
InitCtrl ==
  InitWith(ArgSpace(Systems, {1, 2}, {1},
                    [feedback : Bools, noise : Off, filter : Off,
                     plot_fb_resp : Bools, save : Bools],
                    RelinDefault,
                    NoPoke \cup [poke : {TRUE}, poke_strength : {5},
                                 poke_time : {dt, dt + 1},
                                 poke_duration : {dt, 3 * dt}]))

SpecCtrl == InitCtrl /\ [][Next]_vars

\* the error fed to the update: every system with and without noise and filter
InitErr ==
  InitWith(ArgSpace(Systems, {2}, {1},
                    [feedback : Bools, noise : Bools, filter : Bools,
                     plot_fb_resp : Off, save : Off],
                    RelinDefault, NoPoke))

SpecErr == InitErr /\ [][Next]_vars

\* the linearization points: every system over MaxTrials trials, every
\* combination of relin-time, relin-iter and feedforward
InitRelin ==
  InitWith(ArgSpace(Systems, {MaxTrials}, {1},
                    [feedback : Off, noise : Off, filter : Off,
                     plot_fb_resp : Off, save : Off],
                    [relin_time : Bools, relin_iter : Bools, feedforward : Bools],
                    NoPoke))

SpecRelin == InitRelin /\ [][Next]_vars

\* Controller.__init__'s thrust direction on desired accelerations that
\* cancel gravity exactly, nearly, or not at all
AccInputs == {<<0, 3, 0>>, <<0, 0, 0 - G>>, <<0, 0, 1 - G>>}

JerkInputs == {<<0, 0 - 2, 0>>, <<1, 0, 1>>}

InitThrust ==
  /\ args \in ArgSpace({"3d"}, {1}, {1},
                       [feedback : Off, noise : Off, filter : Off,
                        plot_fb_resp : Off, save : Off],
                       RelinDefault, NoPoke)
  /\ pc = "thrust"
  /\ zb \in [accels : [1..N -> AccInputs],
             jerks : {[k \in 1..N |-> j] : j \in JerkInputs},
             out : {<<>>}]
  /\ Blank

\* lines 220-235 for the next step i of the loop of line 195
ThrustStep ==
  /\ pc = "thrust"
  /\ Len(zb.out) < N
  /\ zb' = [zb EXCEPT !.out =
              Append(@, ThrustDirection(zb.accels[Len(zb.out) + 1],
                                        zb.jerks[Len(zb.out) + 1]))]
  /\ UNCHANGED <<args, pc, iter_no, lifted_control, lifted_state,
                 initial_lifted, cum_updates, controller, ilc, data, errs,
                 noise_draw, lin_points, lifted_output_error, update,
                 trial_control_corrections, calls, last_get, trace>>

NextThrust == ThrustStep

SpecThrust == InitThrust /\ [][NextThrust]_vars

-----------------------------------------------------------------------------
(* Properties of the trial loop *)

IsPrefix(p, q) == Len(p) <= Len(q) /\ SubSeq(q, 1, Len(p)) = p

Count(seq, e) == Cardinality({k \in DOMAIN seq : seq[k] = e})

Cycle == <<"reset", "simulate", "build", "solve", "update">>

RECURSIVE Cycles(_)
Cycles(n) == IF n = 0 THEN <<>> ELSE Cycle \o Cycles(n - 1)

\* the operations of a complete run of T trials, in order
RunOf(T) == Cycles(T - 1) \o <<"reset", "simulate">>

\* C1: a run of T trials makes T simulations and T - 1 cycles of build, solve,
\* update, each cycle after the simulation of its trial; after the simulation
\* of trial T nothing is built or solved and the lifted control is the one
\* trial T used.  At every moment the operations done are a prefix of that
\* order; a run that ends normally has done all of it.
C1_TrialOrder ==
  /\ IsPrefix(trace, RunOf(args.trials))
  /\ pc = "done" =>
       /\ trace = RunOf(args.trials)
       /\ Count(trace, "simulate") = args.trials
       /\ Count(trace, "build") = args.trials - 1
       /\ Count(trace, "solve") = args.trials - 1
       /\ Count(trace, "update") = args.trials - 1
       /\ Len(trial_control_corrections) = args.trials
       /\ lifted_control = trial_control_corrections[args.trials]

C1_Witness ==
  /\ pc = "done"
  /\ args.trials = MaxTrials
  /\ Count(trace, "update") = MaxTrials - 1

\* the four violations of the claim, in its words
FeedforwardMissing(a) == a.feedforward /\ ~HasFeedforward(a.system)

PlotWithoutFeedback(a) == a.plot_fb_resp /\ ~a.feedback

RelinIterOnly(a) == a.relin_iter /\ ~a.relin_time

RelinTimeAlone(a) == a.relin_time /\ ~a.relin_iter /\ ~a.feedforward

\* C2: with feedforward on a model without it, plot-fb-resp without feedback,
\* relin-iter without relin-time, or relin-time without relin-iter and
\* without feedforward, the run never resets or simulates the model: it is
\* before its trial loop or aborted.
C2_AbortBeforeTrials ==
  (\/ FeedforwardMissing(args)
   \/ PlotWithoutFeedback(args)
   \/ RelinIterOnly(args)
   \/ RelinTimeAlone(args))
    => /\ trace = <<>>
       /\ pc \in {"start", "setup", "aborted"}
       /\ controller = NoController

C2_Witness ==
  /\ pc = "aborted"
  /\ FeedforwardMissing(args)
  /\ ~PlotWithoutFeedback(args) /\ ~RelinIterOnly(args) /\ ~RelinTimeAlone(args)

LinearNoRelin(a) ==
  a.system = "linear" /\ ~a.relin_iter /\ ~a.feedforward

\* C3 as stated: system=linear, relin-time=False, relin-iter=False,
\* feedforward=False never gets past the preconditions.
C3_Original ==
  (LinearNoRelin(args) /\ ~args.relin_time)
    => /\ trace = <<>>
       /\ pc \in {"start", "aborted"}

\* C3 amended: system=linear, relin-iter=False, feedforward=False is refused
\* before any trial when relin-time=True; with relin-time=False both
\* relinearization asserts pass, and the run is aborted only if plot-fb-resp
\* is asked for without feedback.
C3_RelinTimeRefused ==
  /\ (LinearNoRelin(args) /\ args.relin_time)
       => (trace = <<>> /\ pc \in {"start", "aborted"})
  /\ (LinearNoRelin(args) /\ ~args.relin_time /\ ~PlotWithoutFeedback(args))
       => pc # "aborted"

C3_Witness ==
  /\ LinearNoRelin(args) /\ args.relin_time
  /\ ~PlotWithoutFeedback(args)
  /\ pc = "aborted"

\* C4: reset is called once per trial, after the previous trial's simulate
\* and before this trial's: in the order of operations every simulate is
\* preceded by a reset and every reset is followed by a simulate, and the
\* simulation starts on the model's reset state.
C4_ResetBeforeSimulate ==
  /\ \A k \in DOMAIN trace :
       /\ trace[k] = "simulate" => (k > 1 /\ trace[k - 1] = "reset")
       /\ trace[k] = "reset" => (k < Len(trace) /\ trace[k + 1] = "simulate")
  /\ Count(trace, "reset") = Count(trace, "simulate")
  /\ (pc = "get" /\ controller.index = 0) => ilc = ResetModel
  /\ pc \in {"get", "measure", "linearize", "lift", "solve", "update", "crashed"}
       => Count(trace, "reset") = iter_no + 1

C4_Witness ==
  /\ pc = "get"
  /\ iter_no = 1
  /\ controller.index = 0
  /\ Count(trace, "reset") = 2
  /\ args.feedback

\* C5: the lifted control of the next trial is that of this trial plus alpha
\* times the solved correction, alpha applied once; the update leaves the
\* controls the Controller of this trial holds and the logged copies as they
\* are; no other step of the loop changes the lifted control.
C5_UpdateOnce ==
  [][/\ pc = "update" =>
          /\ lifted_control' = VecAdd(lifted_control, VecScale(args.alpha, update))
          /\ trial_control_corrections' = trial_control_corrections
          /\ trial_control_corrections[iter_no + 1] = lifted_control
          /\ controller'.controls = controller.controls
          /\ controller.controls =
               ControlBlocks(args.system, trial_control_corrections[iter_no + 1])
     /\ pc \notin {"update", "setup"} => lifted_control' = lifted_control]_vars

C5_Witness ==
  /\ pc = "trial"
  /\ iter_no = 2
  /\ args.alpha = 2
  /\ lifted_control # trial_control_corrections[2]

-----------------------------------------------------------------------------
(* Properties of Controller.get *)

\* the command ilc.feedback returns for the call of last_get on a model
\* whose integrators the probe has not touched
Unprobed ==
  feedback(args.system, last_get.pre, last_get.x, last_get.index,
           last_get.block, TRUE)

\* C6: when the feedback response is recorded, every probing call passes
\* integrate=False, the one integrating call of the step comes after all of
\* them with the unperturbed x, and int_u and int_udot hold their pre-probe
\* values when it is made, so that the step leaves the integrators as a step
\* without probe does.  (A call of get that raises before line 349 makes no
\* integrating call.)
C6_ProbeDiscipline ==
  (last_get.recording /\ last_get.outcome # "none") =>
    LET n == Len(calls)
    IN /\ \A k \in 1..n : calls[k].integrate => k = n
       /\ \A k \in 1..n : ~calls[k].integrate =>
            \/ calls[k].x = last_get.x
            \/ \E i \in 1..Len(last_get.x) :
                 calls[k].x = [last_get.x EXCEPT ![i] = @ + try_eps]
       /\ last_get.outcome = "return" =>
            /\ n = 2 + Len(last_get.x)
                     + (IF args.system = "3ddediv" THEN 2 ELSE 0)
            /\ calls[n].integrate
            /\ calls[n].x = last_get.x
            /\ calls[n].int_u = last_get.pre.int_u
            /\ calls[n].int_udot = last_get.pre.int_udot
            /\ ilc = Unprobed.ilc
            /\ last_get.fb = Unprobed.out

C6_Witness ==
  /\ last_get.recording
  /\ last_get.outcome = "return"
  /\ args.system = "3ddediv"
  /\ last_get.pre.int_udot # 0
  /\ \E k \in 1..Len(calls) : calls[k].int_udot = last_get.pre.int_udot + try_eps

\* the step index is strictly inside
\* (poke_time/dt - poke_duration/(2 dt), poke_time/dt + poke_duration/(2 dt))
StrictlyInside(a, index) ==
  LET d == 2 * dt * index - 2 * a.poke_time
  IN 0 - a.poke_duration < d /\ d < a.poke_duration

\* C7: a command carries the poke only in the final trial, with poke enabled,
\* at a step strictly inside the window, and then it is the feedback law's
\* output with poke_strength added to channel 1; in every other call with
\* feedback the command is the feedback law's output, and without feedback
\* it is the block of the lifted control.
C7_PokeOnlyInWindow ==
  last_get.outcome = "return" =>
    LET due == /\ args.poke
               /\ last_get.iter_no = args.trials - 1
               /\ StrictlyInside(args, last_get.index)
    IN /\ last_get.poked => due
       /\ (args.feedback /\ ~due) => (last_get.ret = last_get.fb /\ ~last_get.poked)
       /\ (args.feedback /\ due) =>
            /\ last_get.poked
            /\ last_get.ret = [last_get.fb EXCEPT ![2] = @ + args.poke_strength]
       /\ ~args.feedback => (last_get.ret = last_get.block /\ ~last_get.poked)
       /\ args.feedback => last_get.fb = Unprobed.out

C7_Witness ==
  /\ last_get.outcome = "return"
  /\ last_get.poked
  /\ last_get.index = 2
  /\ last_get.ret # last_get.fb

\* C10: without feedback the k-th call of get returns block k of the trial's
\* lifted control whatever the state, records it, and makes no feedback
\* call, records no feedback response and applies no poke.
C10_OpenLoopReplay ==
  (~args.feedback /\ last_get.outcome # "none") =>
    /\ last_get.outcome = "return"
    /\ last_get.ret = last_get.block
    /\ pc # "trial" =>
         last_get.ret = Block(lifted_control, n_control(args.system), last_get.index)
    /\ calls = <<>>
    /\ last_get.fb = <<>>
    /\ ~last_get.poked
    /\ controller.feedback_responses = <<>>
    /\ controller.feedback_responses_ana = <<>>
    /\ controller.index = last_get.index + 1
    /\ Len(controller.final_controls) = last_get.index + 1
    /\ controller.final_controls[last_get.index + 1] = last_get.ret
    /\ ilc = ResetModel

C10_Witness ==
  /\ ~args.feedback
  /\ args.poke /\ args.save
  /\ last_get.iter_no = 1 /\ args.trials = 2
  /\ last_get.index = 1
  /\ StrictlyInside(args, last_get.index)
  /\ last_get.x # PlantRow(args.system, 0)
  /\ last_get.ret # Block(lifted_control, n_control(args.system), 0)

-----------------------------------------------------------------------------
(* Properties of the error fed to the update *)

\* the systems whose update is fed the position error; the others are fed
\* the acceleration error
PositionChannel == {"linearpos", "2dposlin", "2dpos", "3d", "3ddedi", "3ddediv"}

RECURSIVE FilterTimes(_, _)
FilterTimes(e, n) ==
  IF n = 0 THEN e ELSE FilterColumns(DIMS(args.system), FilterTimes(e, n - 1))

\* the measured error e with the drawn noise added if noise is enabled
Corrupted(e) ==
  IF args.noise THEN AddNoise(DIMS(args.system), e, noise_draw) ELSE e

\* the passes the filter has made over the error when block i is taken
Passes(i) == IF args.filter THEN i + 1 ELSE 0

RECURSIVE Lifted(_, _)
Lifted(block, n) == IF n = 0 THEN <<>> ELSE Lifted(block, n - 1) \o block[n]

\* C9 as stated: for every system the lifted output error is built from the
\* error of the system's own channel, corrupted if noise is enabled and
\* smoothed if filter is enabled.
C9_Original ==
  pc \in {"solve", "update"} =>
    LET raw == IF args.system \in PositionChannel
               THEN PosErrors(args.system, data)
               ELSE AccelErrors(args.system, data)
    IN lifted_output_error =
         Lifted([i \in 1..N |-> FilterTimes(Corrupted(raw), Passes(i - 1))[i + 1]], N)

\* C9 amended: for the systems fed the position error the lifted output
\* error is built from that error, corrupted if noise is enabled and
\* smoothed if filter is enabled (block i after i + 1 passes of the filter);
\* for the systems fed the acceleration error noise and filter change
\* nothing: it is built from the raw acceleration error.
C9_PositionErrorOnly ==
  pc \in {"solve", "update"} =>
    lifted_output_error =
      Lifted([i \in 1..N |->
                IF args.system \in PositionChannel
                THEN FilterTimes(Corrupted(PosErrors(args.system, data)),
                                 Passes(i - 1))[i + 1]
                ELSE AccelErrors(args.system, data)[i + 1]], N)

C9_Witness ==
  /\ pc = "solve"
  /\ args.system = "simple"
  /\ args.noise /\ args.filter
  /\ lifted_output_error = Lifted([i \in 1..N |-> errs.accel[i + 1]], N)
  /\ lifted_output_error # Zeros(N)

-----------------------------------------------------------------------------
(* Properties of the thrust direction *)

LowNorm(k) ==
  LET acc_vec == VecAdd(zb.accels[k], g3)
  IN Dot(acc_vec, acc_vec) < AccNormMin * AccNormMin

\* a direction the fallback may use at step k: that of an earlier step whose
\* norm was not low, or the vertical
FallbackDirections(k) ==
  {zb.out[j].z_b : j \in {i \in 1..(k - 1) : ~LowNorm(i)}}
    \cup {[num |-> <<0, 0, 1>>, u2 |-> 1, pow |-> 1]}

-----------------------------------------------------------------------------
(* C12: the linearization points *)

\* the loop of line 448 visits 0..N-1 and then N-1 again
SourceIndex(k) == IF k <= N THEN k - 1 ELSE N - 1

PointIndex(k) == IF args.relin_time THEN SourceIndex(k) ELSE 0

\* the lifted state and control the set-up leaves before the first trial
SeedState ==
  IF args.feedforward THEN FeedforwardState(args.system)
  ELSE ZeroState(args.system)

SeedControl ==
  IF args.feedforward THEN FeedforwardControl(args.system)
  ELSE ZeroControl(args.system)

\* C12: the list of linearization points handed to get_learning_operator has
\* N+1 entries, entry i of index i for i < N and the last of index N-1; with
\* relin-time off every entry is the point of index 0; with relin-iter off
\* every point is cut from the lifted state and control saved before the
\* first trial, so it is the same in every trial whatever the updates were;
\* with relin-iter on it is row i of the trial's data and block i of the
\* trial's lifted control.
C12_LinearizationPoints ==
  pc \in {"lift", "solve", "update"} =>
    /\ Len(lin_points) = N + 1
    /\ \A k \in 1..(N + 1) :
         /\ lin_points[k].ind = PointIndex(k)
         /\ args.relin_time => lin_points[k].ind = SourceIndex(k)
         /\ ~args.relin_time => lin_points[k] = lin_points[1]
         /\ args.relin_iter =>
              /\ lin_points[k].state = data[PointIndex(k) + 1]
              /\ lin_points[k].control =
                   Block(lifted_control, n_control(args.system), PointIndex(k))
         /\ ~args.relin_iter =>
              /\ lin_points[k].state =
                   Block(SeedState, n_state(args.system), PointIndex(k))
              /\ lin_points[k].control =
                   Block(SeedControl, n_control(args.system), PointIndex(k))

\* the points of a later trial, built without relin-iter after an update
\* that changed the lifted control
C12_Witness ==
  /\ pc = "lift"
  /\ iter_no >= 1
  /\ args.relin_time /\ ~args.relin_iter
  /\ lifted_control # SeedControl
  /\ lin_points[N + 1].ind = N - 1
  /\ lin_points[2].control # Block(lifted_control, n_control(args.system), 1)

-----------------------------------------------------------------------------
(* C13: the passes of the filter *)

\* C13: with filter enabled on a system fed the position error, the filter
\* is applied once per axis to the trial's (possibly noise-corrupted)
\* position error, and every block i of the lifted output error is sample
\* i + 1 of that one filtered sequence.
C13_FilterOnce ==
  (pc \in {"solve", "update"} /\ args.filter
     /\ args.system \in PositionChannel) =>
    LET once == FilterTimes(Corrupted(PosErrors(args.system, data)), 1)
    IN /\ lifted_output_error = Lifted([i \in 1..N |-> once[i + 1]], N)
       /\ errs.pos = once

-----------------------------------------------------------------------------
(* C14: the per-step lists read by the dispatch of Controller.get *)

\* C14: with feedback enabled, for every system, every per-step list that
\* the system's dispatch branch reads was filled by the constructor with an
\* entry at every step 0..N-1, so that no call of get reads past the end of
\* a list while it builds the argument list.
C14_DispatchListsFilled ==
  (args.feedback /\ controller # NoController) =>
    /\ \A l \in ArgLists(args.system) \cup {"controls"} :
         \A k \in 0..(N - 1) : k < Len(controller[l])
    /\ last_get.outcome # "IndexError"

=============================================================================
